---- MODULE Spec2Model ----
(***************************************************************************)
(* PMT Data Explorer (src/src/PMTDataExplorer.jsx, src/src/main.jsx).      *)
(*                                                                         *)
(* Three specifications over one set of variables:                         *)
(*   Spec      the App component on one client: init effect, sign-in, the  *)
(*             auth-state callback, the snapshot listener and the UI       *)
(*             handlers.  The Firestore collection is the environment: the *)
(*             data of each snapshot delivery is an input.                 *)
(*   SpecSeed  the seed check of the auth-state callback run by several    *)
(*             callbacks (clients) against the shared collection.          *)
(*   SpecChart SvgLineChart applied as a function of its props.            *)
(*                                                                         *)
(* JavaScript numbers are modelled as exact rationals extended with NaN    *)
(* and +/-Infinity; measurement values are integers (scaled units).        *)
(* Source identifiers (source_file strings) are modelled as naturals whose *)
(* numeric order is the lexicographic order Array.prototype.sort() uses.   *)
(***************************************************************************)
EXTENDS Integers, Sequences, FiniteSets, TLC

VARIABLES
    firebaseConfig,   \* "ok" | "missing" | "invalid" (initializeApp throws)
    initDone,         \* the init effect (effect 1) has run
    db, auth,         \* useState: set (TRUE) or null (FALSE)
    userId,           \* useState: "none" or the uid
    isAuthReady, isLoading, error,
    allData, selectedPmts, selectedMetric,
    authPc,           \* position of authenticateAndSetup
    cbPc,             \* position of this client's onAuthStateChanged callback
    listener,         \* onSnapshot listener: "off" | "on" | "dead"
    lastValidation,   \* history: the last change of the selection was the
                      \* snapshot callback's "default" or "dropped", else "none"
    store, cb,        \* SpecSeed: the collection and the callbacks
    chartProps, chart \* SpecChart: props given to SvgLineChart and its result

vars == <<firebaseConfig, initDone, db, auth, userId, isAuthReady, isLoading,
          error, allData, selectedPmts, selectedMetric, authPc, cbPc, listener,
          lastValidation, store, cb, chartProps, chart>>

appVars == <<firebaseConfig, initDone, db, auth, userId, isAuthReady, isLoading,
             error, allData, selectedPmts, selectedMetric, authPc, cbPc, listener,
             lastValidation>>

seedVars == <<store, cb>>

chartVars == <<chartProps, chart>>

-----------------------------------------------------------------------------
(* Bounds of the model *)


\* largest length of a source list the palette wrap-around is evaluated on
MaxPaletteList == 12

\* number of documents added to or removed from the collection between two
\* consecutive snapshot deliveries
MaxDocChanges == 1

\* number of concurrent auth-state callbacks (clients) in SpecSeed
NumCallbacks == 2

\* number of catalogue documents the inputs of SpecChart are drawn from
ChartDocs == 4

-----------------------------------------------------------------------------
(* Program constants *)

PLOT_COLORS ==
    << "#ef4444", "#3b82f6", "#10b981", "#f97316", "#a855f7",
       "#06b6d4", "#eab308", "#ec4899", "#84cc16", "#6366f1" >>

Y_AXIS_OPTIONS ==
    << [key |-> "light_response", label |-> "Light Response (A/uWatt/cm2/nm)"],
       [key |-> "current",        label |-> "Current (A)"],
       [key |-> "intensity",      label |-> "Intensity (uWatt/cm2/nm)"] >>

MetricKeys == { Y_AXIS_OPTIONS[i].key : i \in 1..Len(Y_AXIS_OPTIONS) }

chartWidth == 700
chartHeight == 400
padding == 50

\* uniquePmts.slice(0, Math.min(uniquePmts.length, 5))
DefaultSelectionSize == 5

\* for (let i = 0; i <= 5; i++)
TickSteps == 5

-----------------------------------------------------------------------------
(* JavaScript values: numbers (rationals n/d, d > 0), NaN, +/-Infinity,     *)
(* strings and undefined, all of one record shape.                          *)

RECURSIVE GCD(_, _)
GCD(a, b) == IF b = 0 THEN a ELSE GCD(b, a % b)

Abs(x) == IF x < 0 THEN -x ELSE x

NaN == [t |-> "NaN", n |-> 0, d |-> 0]
Infinity(sign) == [t |-> "inf", n |-> sign, d |-> 0]
Undefined == [t |-> "undefined", n |-> 0, d |-> 0]
StrV == [t |-> "string", n |-> 0, d |-> 0]

\* the rational n/d in lowest terms with a positive denominator
Rat(n, d) ==
    LET g == GCD(Abs(n), Abs(d))
        s == IF d < 0 THEN -1 ELSE 1
    IN [t |-> "num", n |-> (s * n) \div g, d |-> (s * d) \div g]

NumV(i) == [t |-> "num", n |-> i, d |-> 1]

Sign(x) == IF x < 0 THEN -1 ELSE 1

\* ToNumber: undefined and non-numeric strings convert to NaN
ToNumber(v) == IF v.t \in {"undefined", "string"} THEN NaN ELSE v

IsFinite(v) == v.t = "num"

JsNeg(a) == [a EXCEPT !.n = -a.n]

JsAdd(x, y) ==
    LET a == ToNumber(x)
        b == ToNumber(y)
    IN IF a.t = "NaN" \/ b.t = "NaN" THEN NaN
       ELSE IF a.t = "inf" /\ b.t = "inf" THEN (IF a.n = b.n THEN a ELSE NaN)
       ELSE IF a.t = "inf" THEN a
       ELSE IF b.t = "inf" THEN b
       ELSE Rat(a.n * b.d + b.n * a.d, a.d * b.d)

JsSub(x, y) == JsAdd(x, JsNeg(ToNumber(y)))

JsMul(x, y) ==
    LET a == ToNumber(x)
        b == ToNumber(y)
    IN IF a.t = "NaN" \/ b.t = "NaN" THEN NaN
       ELSE IF a.t = "inf" \/ b.t = "inf"
            THEN (IF a.n = 0 \/ b.n = 0 THEN NaN ELSE Infinity(Sign(a.n) * Sign(b.n)))
       ELSE Rat(a.n * b.n, a.d * b.d)

\* IEEE division: 0/0 is NaN, x/0 is +/-Infinity
JsDiv(x, y) ==
    LET a == ToNumber(x)
        b == ToNumber(y)
    IN IF a.t = "NaN" \/ b.t = "NaN" THEN NaN
       ELSE IF a.t = "inf" THEN (IF b.t = "inf" THEN NaN ELSE Infinity(a.n * Sign(b.n)))
       ELSE IF b.t = "inf" THEN NumV(0)
       ELSE IF b.n = 0 THEN (IF a.n = 0 THEN NaN ELSE Infinity(Sign(a.n)))
       ELSE Rat(a.n * b.d, a.d * b.n)

\* a < b on numbers that are not NaN
JsLess(a, b) ==
    IF a.t = "inf" THEN a.n < 0 /\ ~(b.t = "inf" /\ b.n < 0)
    ELSE IF b.t = "inf" THEN b.n > 0
    ELSE a.n * b.d < b.n * a.d

RECURSIVE MinFrom(_, _, _)
MinFrom(xs, i, acc) ==
    IF i > Len(xs) THEN acc
    ELSE MinFrom(xs, i + 1, IF JsLess(ToNumber(xs[i]), acc) THEN ToNumber(xs[i]) ELSE acc)

RECURSIVE MaxFrom(_, _, _)
MaxFrom(xs, i, acc) ==
    IF i > Len(xs) THEN acc
    ELSE MaxFrom(xs, i + 1, IF JsLess(acc, ToNumber(xs[i])) THEN ToNumber(xs[i]) ELSE acc)

\* Math.min(...xs): Infinity for no arguments, NaN if any argument is NaN
MathMin(xs) ==
    IF \E i \in 1..Len(xs) : ToNumber(xs[i]).t = "NaN" THEN NaN
    ELSE MinFrom(xs, 1, Infinity(1))

\* Math.max(...xs): -Infinity for no arguments, NaN if any argument is NaN
MathMax(xs) ==
    IF \E i \in 1..Len(xs) : ToNumber(xs[i]).t = "NaN" THEN NaN
    ELSE MaxFrom(xs, 1, Infinity(-1))

-----------------------------------------------------------------------------
(* Array helpers; xs.filter(x => Keep(x)) is SelectSeq(xs, Keep) *)

Includes(xs, x) == \E i \in 1..Len(xs) : xs[i] = x

\* [...set].sort(): ascending list of a set of source ids
RECURSIVE SortedList(_)
SortedList(S) ==
    IF S = {} THEN <<>>
    ELSE LET m == CHOOSE x \in S : \A y \in S : x <= y
         IN <<m>> \o SortedList(S \ {m})

\* insertion of one record into a list sorted by wavelength, after its equals
RECURSIVE InsertByWavelength(_, _)
InsertByWavelength(sorted, d) ==
    IF sorted = <<>> THEN <<d>>
    ELSE IF d.wavelength < Head(sorted).wavelength THEN <<d>> \o sorted
    ELSE <<Head(sorted)>> \o InsertByWavelength(Tail(sorted), d)

RECURSIVE SortByWavelengthFrom(_, _, _)
SortByWavelengthFrom(xs, i, acc) ==
    IF i > Len(xs) THEN acc
    ELSE SortByWavelengthFrom(xs, i + 1, InsertByWavelength(acc, xs[i]))

\* xs.sort((a, b) => a.wavelength - b.wavelength), a stable sort
SortByWavelength(xs) == SortByWavelengthFrom(xs, 1, <<>>)

-----------------------------------------------------------------------------
(* Measurement records and the documents the environment can hold *)

\* distinct source ids the environment can put in the collection: one more
\* than the default selection takes, so that the slice cuts the list
NumSources == DefaultSelectionSize + 1

\* number of documents of the catalogue: one per source, and a second one
\* of source 1 that follows the others in document-id order
NumDocs == NumSources + 1

Sources == 1..NumSources

\* the document with id i: { id, source_file, wavelength, light_response,
\* current, intensity }.  Wavelengths fall with the id, two neighbouring
\* documents share a wavelength, metric values repeat, currents are negative.
CatalogueDoc(i) ==
    [ id             |-> i,
      source_file    |-> IF i > NumSources THEN 1 ELSE i,
      wavelength     |-> 200 + 10 * ((NumDocs - i) \div 2),
      light_response |-> (i % 3) + 1,
      current        |-> 0 - ((i * i) % 5) - 1,
      intensity      |-> 100 * i ]

\* snapshot.docs.map(doc => ({ id: doc.id, ...doc.data() })) of a collection
\* holding the documents ids, in document-id order
RECURSIVE SnapshotOf(_)
SnapshotOf(ids) ==
    IF ids = {} THEN <<>>
    ELSE LET m == CHOOSE x \in ids : \A y \in ids : x <= y
         IN <<CatalogueDoc(m)>> \o SnapshotOf(ids \ {m})

\* the snapshots the environment can deliver
Snapshots == { SnapshotOf(ids) : ids \in SUBSET (1..NumDocs) }

\* d[key] for a record d and any property name
Field(d, key) ==
    CASE key = "wavelength"     -> NumV(d.wavelength)
      [] key = "light_response" -> NumV(d.light_response)
      [] key = "current"        -> NumV(d.current)
      [] key = "intensity"      -> NumV(d.intensity)
      [] key = "source_file"    -> StrV
      [] key = "id"             -> StrV
      [] OTHER                  -> Undefined

\* Number.prototype.toExponential exists on numbers only (NaN included)
HasToExponential(v) == v.t \in {"num", "NaN", "inf"}

SourcesOf(data) == { data[i].source_file : i \in 1..Len(data) }

SetOf(xs) == { xs[i] : i \in 1..Len(xs) }

IndexOf(xs, x) == CHOOSE i \in 1..Len(xs) : xs[i] = x

-----------------------------------------------------------------------------
(* Derived state of App *)

\* [...new Set(data.map(d => d.source_file))].sort()
uniquePmtsOf(data) == SortedList(SourcesOf(data))

\* uniquePmts.reduce((acc, pmt, index) => acc[pmt] = PLOT_COLORS[index % 10])
pmtColorMap(uniq) ==
    [ pmt \in SetOf(uniq) |->
        PLOT_COLORS[((IndexOf(uniq, pmt) - 1) % Len(PLOT_COLORS)) + 1] ]

\* allData.filter(d => selectedPmts.includes(d.source_file))
filteredData(data, selected) ==
    LET Keep(d) == Includes(selected, d.source_file)
    IN SelectSeq(data, Keep)

-----------------------------------------------------------------------------
(* SvgLineChart *)

scaleData(value, domainMin, domainMax, rangeMin, rangeMax) ==
    JsAdd(rangeMin,
          JsDiv(JsMul(JsSub(rangeMax, rangeMin), JsSub(value, domainMin)),
                JsSub(domainMax, domainMin)))

\* Y_AXIS_OPTIONS.find(opt => opt.key === selectedMetric)?.label || ''
metricLabel(metric) ==
    LET found == { i \in 1..Len(Y_AXIS_OPTIONS) : Y_AXIS_OPTIONS[i].key = metric }
    IN IF found = {} THEN ""
       ELSE Y_AXIS_OPTIONS[CHOOSE i \in found : \A j \in found : i <= j].label

\* the object useMemo returns for no data: {} (every property undefined)
EmptyMemo ==
    [ computed |-> FALSE,
      xMin |-> Undefined, xMax |-> Undefined,
      yMin |-> Undefined, yMax |-> Undefined,
      xAxisTicks |-> <<>>, yAxisTicks |-> <<>>, yAxisLabel |-> "" ]

\* the scaling domains, ticks and label computed for non-empty data
ComputeMemo(data, metric) ==
    LET xValues == [ i \in 1..Len(data) |-> Field(data[i], "wavelength") ]
        yValues == [ i \in 1..Len(data) |-> Field(data[i], metric) ]
        xMin == MathMin(xValues)
        xMax == MathMax(xValues)
        yMin == MathMin(yValues)
        yMax == MathMax(yValues)
        xRange == JsSub(xMax, xMin)
        yRange == JsSub(yMax, yMin)
    IN [ computed |-> TRUE,
         xMin |-> xMin, xMax |-> xMax, yMin |-> yMin, yMax |-> yMax,
         xAxisTicks |-> [ k \in 1..(TickSteps + 1) |->
             JsAdd(xMin, JsMul(JsDiv(xRange, NumV(TickSteps)), NumV(k - 1))) ],
         yAxisTicks |-> [ k \in 1..(TickSteps + 1) |->
             JsAdd(yMin, JsMul(JsDiv(yRange, NumV(TickSteps)), NumV(k - 1))) ],
         yAxisLabel |-> metricLabel(metric) ]

\* mutant of ChartMemo: the empty guard is missing
ChartMemo_NoGuard(data, metric) == ComputeMemo(data, metric)

\* useMemo(() => { if (data.length === 0) return {}; ... })
ChartMemo(data, metric) ==
    IF Len(data) = 0 THEN EmptyMemo ELSE ComputeMemo(data, metric)

xScale(memo, x) ==
    scaleData(x, memo.xMin, memo.xMax, NumV(padding), NumV(chartWidth - padding))

\* Y is inverted for SVG
yScale(memo, y) ==
    scaleData(y, memo.yMin, memo.yMax, NumV(chartHeight - padding), NumV(padding))

\* mutant of dataByPmt: the records are left in snapshot order
dataByPmt_Unsorted(data, pmtList) ==
    [ pmt \in SetOf(pmtList) |->
        LET Keep(d) == d.source_file = pmt
        IN SelectSeq(data, Keep) ]

\* pmtList.reduce: for each pmt its records of data, sorted by wavelength
dataByPmt(data, pmtList) ==
    [ pmt \in SetOf(pmtList) |->
        LET Keep(d) == d.source_file = pmt
        IN SortByWavelength(SelectSeq(data, Keep)) ]

\* mutant of seriesColor: the color is always taken by selection index
seriesColor_ByIndex(colorMap, pmt, index) ==
    [ color |-> PLOT_COLORS[(index % Len(PLOT_COLORS)) + 1], fallback |-> TRUE ]

\* colorMap[pmt] || PLOT_COLORS[index % PLOT_COLORS.length]  (index from 0)
seriesColor(colorMap, pmt, index) ==
    IF pmt \in DOMAIN colorMap
    THEN [ color |-> colorMap[pmt], fallback |-> FALSE ]
    ELSE [ color |-> PLOT_COLORS[(index % Len(PLOT_COLORS)) + 1], fallback |-> TRUE ]

\* the <g> drawn for pmtList[i]: its key, stroke color and sorted records
seriesOf(groups, pmtList, colorMap, i) ==
    LET c == seriesColor(colorMap, pmtList[i], i - 1)
    IN [ pmt      |-> pmtList[i],
         color    |-> c.color,
         fallback |-> c.fallback,
         data     |-> groups[pmtList[i]] ]

\* the polyline vertices and marker centres of the records pmtData
seriesPoints(memo, pmtData, metric) ==
    [ j \in 1..Len(pmtData) |->
        [ cx |-> xScale(memo, Field(pmtData[j], "wavelength")),
          cy |-> yScale(memo, Field(pmtData[j], metric)) ] ]

\* which way the render ends: the placeholder panel, the TypeError of a
\* marker's d[selectedMetric].toExponential(3) on a non-number, or the chart
chartKind(data, metric, pmtList) ==
    IF Len(data) = 0 THEN "placeholder"
    ELSE IF \E k \in 1..Len(data) :
              /\ Includes(pmtList, data[k].source_file)
              /\ ~HasToExponential(Field(data[k], metric))
         THEN "TypeError"
    ELSE "chart"

\* the series drawn: pmtList.map over dataByPmt, when the chart is drawn
chartSeries(data, metric, pmtList, colorMap) ==
    IF chartKind(data, metric, pmtList) # "chart" THEN <<>>
    ELSE LET groups == dataByPmt(data, pmtList)
         IN [ i \in 1..Len(pmtList) |-> seriesOf(groups, pmtList, colorMap, i) ]

\* the vertices of each series drawn
chartPoints(data, metric, pmtList) ==
    IF chartKind(data, metric, pmtList) # "chart" THEN <<>>
    ELSE LET memo   == ChartMemo(data, metric)
             groups == dataByPmt(data, pmtList)
         IN [ i \in 1..Len(pmtList) |-> seriesPoints(memo, groups[pmtList[i]], metric) ]

\* the pixel positions of the grid lines of the ticks
chartGrid(data, metric, pmtList) ==
    IF chartKind(data, metric, pmtList) # "chart" THEN [ x |-> <<>>, y |-> <<>> ]
    ELSE LET memo == ChartMemo(data, metric)
         IN [ x |-> [ k \in 1..Len(memo.xAxisTicks) |-> xScale(memo, memo.xAxisTicks[k]) ],
              y |-> [ k \in 1..Len(memo.yAxisTicks) |-> yScale(memo, memo.yAxisTicks[k]) ] ]

\* the title and axis label drawn
chartLabel(data, metric, pmtList) ==
    IF chartKind(data, metric, pmtList) # "chart" THEN ""
    ELSE ChartMemo(data, metric).yAxisLabel

\* the result of rendering SvgLineChart
SvgLineChart(data, metric, pmtList, colorMap) ==
    [ kind       |-> chartKind(data, metric, pmtList),
      memo       |-> ChartMemo(data, metric),
      yAxisLabel |-> chartLabel(data, metric, pmtList),
      grid       |-> chartGrid(data, metric, pmtList),
      series     |-> chartSeries(data, metric, pmtList, colorMap),
      points     |-> chartPoints(data, metric, pmtList) ]

-----------------------------------------------------------------------------
(* App: state after construction *)

NoProps == [ data |-> <<>>, selectedMetric |-> "light_response",
             pmtList |-> <<>>, colorMap |-> <<>> ]

NotRendered ==
    [ kind |-> "none", memo |-> EmptyMemo, yAxisLabel |-> "",
      grid |-> [ x |-> <<>>, y |-> <<>> ], series |-> <<>>, points |-> <<>> ]

\* the useState initial values and the effects not yet run
AppInit ==
    /\ initDone = FALSE
    /\ db = FALSE
    /\ auth = FALSE
    /\ userId = "none"
    /\ isAuthReady = FALSE
    /\ allData = <<>>
    /\ selectedPmts = <<>>
    /\ selectedMetric = "light_response"
    /\ isLoading = TRUE
    /\ error = "none"
    /\ authPc = "idle"
    /\ cbPc = "none"
    /\ listener = "off"
    /\ lastValidation = "none"

SeedIdle == /\ store = <<>>
            /\ cb = <<>>

ChartIdle == /\ chartProps = NoProps
             /\ chart = NotRendered

Init ==
    /\ firebaseConfig \in {"ok", "missing", "invalid"}
    /\ AppInit
    /\ SeedIdle
    /\ ChartIdle

-----------------------------------------------------------------------------
(* App: render branches and derived values of the current state *)

\* which of the three return branches of App is on screen
Screen ==
    IF ~isAuthReady \/ isLoading THEN "loading"
    ELSE IF error # "none" THEN "error"
    ELSE "main"

uniquePmts == uniquePmtsOf(allData)

\* the props of <SvgLineChart data={filteredData} selectedMetric={selectedMetric}
\* pmtList={selectedPmts} colorMap={pmtColorMap} /> and what it renders
filtered == filteredData(allData, selectedPmts)

ChartKind == chartKind(filtered, selectedMetric, selectedPmts)

ChartMemoNow == ChartMemo(filtered, selectedMetric)

ChartSeries ==
    chartSeries(filtered, selectedMetric, selectedPmts, pmtColorMap(uniquePmts))

ChartPoints == chartPoints(filtered, selectedMetric, selectedPmts)

ChartGrid == chartGrid(filtered, selectedMetric, selectedPmts)

-----------------------------------------------------------------------------
(* App: effects *)

\* effect 1: initialize Firebase, Auth and Database
InitEffect ==
    /\ ~initDone
    /\ initDone' = TRUE
    /\ IF firebaseConfig = "missing"
       THEN /\ error' = "Firebase configuration is missing"
            /\ isLoading' = FALSE
            /\ UNCHANGED <<db, auth>>
       ELSE IF firebaseConfig = "invalid"
       THEN /\ error' = "Firebase Initialization Error"
            /\ isLoading' = FALSE
            /\ UNCHANGED <<db, auth>>
       ELSE /\ db' = TRUE
            /\ auth' = TRUE
            /\ UNCHANGED <<error, isLoading>>
    /\ UNCHANGED <<firebaseConfig, userId, isAuthReady, allData, selectedPmts,
                   selectedMetric, authPc, cbPc, listener>>
    /\ UNCHANGED <<lastValidation, seedVars, chartVars>>

\* effect 2: authenticateAndSetup starts and awaits the sign-in
AuthEffect ==
    /\ auth /\ db
    /\ authPc = "idle"
    /\ authPc' = "signingIn"
    /\ UNCHANGED <<firebaseConfig, initDone, db, auth, userId, isAuthReady,
                   isLoading, error, allData, selectedPmts, selectedMetric,
                   cbPc, listener>>
    /\ UNCHANGED <<lastValidation, seedVars, chartVars>>

\* the sign-in resolves; onAuthStateChanged is registered and will report the user
SignInResolved ==
    /\ authPc = "signingIn"
    /\ authPc' = "registered"
    /\ cbPc' = "pendingUser"
    /\ UNCHANGED <<firebaseConfig, initDone, db, auth, userId, isAuthReady,
                   isLoading, error, allData, selectedPmts, selectedMetric,
                   listener>>
    /\ UNCHANGED <<lastValidation, seedVars, chartVars>>

\* the sign-in rejects: the catch block runs, then onAuthStateChanged is
\* registered; it reports null, or the user of a persisted earlier session
SignInRejected ==
    /\ authPc = "signingIn"
    /\ error' = "Authentication failed"
    /\ isAuthReady' = TRUE
    /\ authPc' = "registered"
    /\ cbPc' \in {"pendingNull", "pendingUser"}
    /\ UNCHANGED <<firebaseConfig, initDone, db, auth, userId, isLoading,
                   allData, selectedPmts, selectedMetric, listener>>
    /\ UNCHANGED <<lastValidation, seedVars, chartVars>>

\* onAuthStateChanged callback, user present: up to the await of getDocs
AuthCallbackUser ==
    /\ cbPc = "pendingUser"
    /\ userId' = "uid"
    /\ cbPc' = "getDocs"
    /\ UNCHANGED <<firebaseConfig, initDone, db, auth, isAuthReady, isLoading,
                   error, allData, selectedPmts, selectedMetric, authPc, listener>>
    /\ UNCHANGED <<lastValidation, seedVars, chartVars>>

\* onAuthStateChanged callback, user null
AuthCallbackNull ==
    /\ cbPc = "pendingNull"
    /\ isAuthReady' = TRUE
    /\ cbPc' = "done"
    /\ UNCHANGED <<firebaseConfig, initDone, db, auth, userId, isLoading,
                   error, allData, selectedPmts, selectedMetric, authPc, listener>>
    /\ UNCHANGED <<lastValidation, seedVars, chartVars>>

\* getDocs resolves: snapshot.empty decides between seeding and finishing
GetDocsResolved(empty) ==
    /\ cbPc = "getDocs"
    /\ IF empty
       THEN /\ cbPc' = "seeding"
            /\ UNCHANGED isAuthReady
       ELSE /\ cbPc' = "done"
            /\ isAuthReady' = TRUE
    /\ UNCHANGED <<firebaseConfig, initDone, db, auth, userId, isLoading,
                   error, allData, selectedPmts, selectedMetric, authPc, listener>>
    /\ UNCHANGED <<lastValidation, seedVars, chartVars>>

\* Promise.all of the setDoc calls resolves
SeedResolved ==
    /\ cbPc = "seeding"
    /\ cbPc' = "done"
    /\ isAuthReady' = TRUE
    /\ UNCHANGED <<firebaseConfig, initDone, db, auth, userId, isLoading,
                   error, allData, selectedPmts, selectedMetric, authPc, listener>>
    /\ UNCHANGED <<lastValidation, seedVars, chartVars>>

\* getDocs or a setDoc rejects: the async callback ends without setIsAuthReady
CallbackRejected ==
    /\ cbPc \in {"getDocs", "seeding"}
    /\ cbPc' = "rejected"
    /\ UNCHANGED <<firebaseConfig, initDone, db, auth, userId, isAuthReady,
                   isLoading, error, allData, selectedPmts, selectedMetric,
                   authPc, listener>>
    /\ UNCHANGED <<lastValidation, seedVars, chartVars>>

\* effect 3: subscribe with onSnapshot once db and isAuthReady are set
SnapshotEffect ==
    /\ db /\ isAuthReady
    /\ listener = "off"
    /\ listener' = "on"
    /\ UNCHANGED <<firebaseConfig, initDone, db, auth, userId, isAuthReady,
                   isLoading, error, allData, selectedPmts, selectedMetric,
                   authPc, cbPc>>
    /\ UNCHANGED <<lastValidation, seedVars, chartVars>>

\* mutant of SliceSelection: every source is selected by default
SliceSelection_All(uniq) == uniq

\* uniquePmts.slice(0, Math.min(uniquePmts.length, 5))
SliceSelection(uniq) ==
    SubSeq(uniq, 1, IF Len(uniq) < DefaultSelectionSize THEN Len(uniq)
                    ELSE DefaultSelectionSize)

\* mutant of ValidateSelection: a non-empty selection is kept as it is
ValidateSelection_Unchecked(prev, uniq) ==
    IF Len(prev) = 0 THEN SliceSelection(uniq) ELSE prev

\* the updater given to setSelectedPmts in the snapshot callback
ValidateSelection(prev, uniq) ==
    IF Len(prev) = 0
    THEN SliceSelection(uniq)
    ELSE LET Keep(p) == Includes(uniq, p) IN SelectSeq(prev, Keep)

\* history only: how the selection came to its value after this callback:
\* by the default, by the removal of an id, or as it was before
ValidationOutcome(prev, uniq) ==
    IF Len(prev) = 0 THEN "default"
    ELSE IF \A i \in 1..Len(prev) : Includes(uniq, prev[i]) THEN lastValidation
    ELSE "dropped"

DocIdsOf(data) == { data[i].id : i \in 1..Len(data) }

\* sets of at most MaxDocChanges document ids
DocChanges == { D \in SUBSET (1..NumDocs) : Cardinality(D) <= MaxDocChanges }

\* the collections the listener can deliver next: whatever the collection
\* holds on the first delivery; afterwards the last delivery with the
\* documents of some D in DocChanges added (if absent) or removed (if present)
DeliverableIds ==
    IF isLoading THEN SUBSET (1..NumDocs)
    ELSE LET cur == DocIdsOf(allData)
         IN { (cur \ D) \cup (D \ cur) : D \in DocChanges }

\* onSnapshot success callback, delivering the documents ids
OnSnapshot(ids) ==
    LET data     == SnapshotOf(ids)
        uniqPmts == uniquePmtsOf(data)
    IN /\ listener = "on"
       /\ allData' = data
       /\ selectedPmts' = ValidateSelection(selectedPmts, uniqPmts)
       /\ isLoading' = FALSE
       /\ UNCHANGED <<firebaseConfig, initDone, db, auth, userId, isAuthReady,
                      error, selectedMetric, authPc, cbPc, listener>>
       /\ lastValidation' = ValidationOutcome(selectedPmts, uniqPmts)
       /\ UNCHANGED <<seedVars, chartVars>>

\* onSnapshot error callback; Firestore ends the listener after an error
OnSnapshotError ==
    /\ listener = "on"
    /\ error' = "Failed to fetch data"
    /\ isLoading' = FALSE
    /\ listener' = "dead"
    /\ UNCHANGED <<firebaseConfig, initDone, db, auth, userId, isAuthReady,
                   allData, selectedPmts, selectedMetric, authPc, cbPc>>
    /\ UNCHANGED <<lastValidation, seedVars, chartVars>>

-----------------------------------------------------------------------------
(* App: event handlers; the controls exist on the main screen only *)

TogglePmt(prev, pmt) ==
    IF Includes(prev, pmt)
    THEN LET Keep(p) == p # pmt IN SelectSeq(prev, Keep)
    ELSE Append(prev, pmt)

\* a click on the button of pmt, one of uniquePmts
handlePmtToggle(pmt) ==
    /\ Screen = "main"
    /\ pmt \in SetOf(uniquePmts)
    /\ selectedPmts' = TogglePmt(selectedPmts, pmt)
    /\ UNCHANGED <<firebaseConfig, initDone, db, auth, userId, isAuthReady,
                   isLoading, error, allData, selectedMetric, authPc, cbPc,
                   listener>>
    /\ lastValidation' = "none"
    /\ UNCHANGED <<seedVars, chartVars>>

handleSelectAll ==
    /\ Screen = "main"
    /\ selectedPmts' = uniquePmts
    /\ UNCHANGED <<firebaseConfig, initDone, db, auth, userId, isAuthReady,
                   isLoading, error, allData, selectedMetric, authPc, cbPc,
                   listener>>
    /\ lastValidation' = "none"
    /\ UNCHANGED <<seedVars, chartVars>>

handleClearSelection ==
    /\ Screen = "main"
    /\ selectedPmts' = <<>>
    /\ UNCHANGED <<firebaseConfig, initDone, db, auth, userId, isAuthReady,
                   isLoading, error, allData, selectedMetric, authPc, cbPc,
                   listener>>
    /\ lastValidation' = "none"
    /\ UNCHANGED <<seedVars, chartVars>>

\* a click on the button of a Y_AXIS_OPTIONS entry
setSelectedMetric(key) ==
    /\ Screen = "main"
    /\ key \in MetricKeys
    /\ selectedMetric' = key
    /\ UNCHANGED <<firebaseConfig, initDone, db, auth, userId, isAuthReady,
                   isLoading, error, allData, selectedPmts, authPc, cbPc,
                   listener>>
    /\ UNCHANGED <<lastValidation, seedVars, chartVars>>

Next ==
    \/ InitEffect
    \/ AuthEffect
    \/ SignInResolved
    \/ SignInRejected
    \/ AuthCallbackUser
    \/ AuthCallbackNull
    \/ \E empty \in BOOLEAN : GetDocsResolved(empty)
    \/ SeedResolved
    \/ CallbackRejected
    \/ SnapshotEffect
    \/ \E ids \in DeliverableIds : OnSnapshot(ids)
    \/ OnSnapshotError
    \/ \E pmt \in Sources : handlePmtToggle(pmt)
    \/ handleSelectAll
    \/ handleClearSelection
    \/ \E key \in MetricKeys : setSelectedMetric(key)

Spec == Init /\ [][Next]_vars

-----------------------------------------------------------------------------
(* SpecSeed: the seed check of the auth-state callback, run by several     *)
(* callbacks against the shared collection.  Values of initialData are in  *)
(* scaled integer units: wavelength and intensity x 1e3, current x 1e14,   *)
(* light_response x 1e16.                                                  *)

initialData ==
    << [source_file |-> "J23-1062.txt", current |-> -47751,   intensity |-> 176410,  wavelength |-> 205988, light_response |-> 27068],
       [source_file |-> "J23-1062.txt", current |-> -70588,   intensity |-> 319546,  wavelength |-> 216824, light_response |-> 22090],
       [source_file |-> "J23-1062.txt", current |-> -119420,  intensity |-> 581395,  wavelength |-> 226520, light_response |-> 20539],
       [source_file |-> "J23-1062.txt", current |-> -213520,  intensity |-> 1032770, wavelength |-> 237356, light_response |-> 20674],
       [source_file |-> "J23-1062.txt", current |-> -359170,  intensity |-> 1534440, wavelength |-> 248192, light_response |-> 23407],
       [source_file |-> "A24-1080.txt", current |-> -1344400, intensity |-> 3682720, wavelength |-> 280700, light_response |-> 36506],
       [source_file |-> "A24-1080.txt", current |-> -1741700, intensity |-> 4439290, wavelength |-> 291536, light_response |-> 39235],
       [source_file |-> "A24-1080.txt", current |-> -2157700, intensity |-> 4655170, wavelength |-> 302372, light_response |-> 46350],
       [source_file |-> "A24-1080.txt", current |-> -2630700, intensity |-> 5135200, wavelength |-> 313208, light_response |-> 51229],
       [source_file |-> "A24-1080.txt", current |-> -3030200, intensity |-> 5416590, wavelength |-> 323474, light_response |-> 55942],
       [source_file |-> "A24-1080.txt", current |-> -3349900, intensity |-> 6589640, wavelength |-> 333739, light_response |-> 50837] >>

Callbacks == 1..NumCallbacks

\* document ids of the collection: index i stands for `entry_${i}`; the last
\* id is a document that is not one of the seed entries
SeedDocIds == 0..(Len(initialData) - 1)
ForeignDocId == Len(initialData)
DocIds == SeedDocIds \cup {ForeignDocId}

\* a collection maps each id to <<>> (no document) or <<data>>
EmptyStore == [ id \in DocIds |-> <<>> ]

ForeignStore == [ EmptyStore EXCEPT ![ForeignDocId] = <<initialData[1]>> ]

\* snapshot.empty of getDocs on the collection
SnapshotEmpty(collection) == \A id \in DOMAIN collection : collection[id] = <<>>

InitSeed ==
    /\ firebaseConfig = "ok"
    /\ AppInit
    /\ ChartIdle
    /\ store \in {EmptyStore, ForeignStore}
    /\ cb = [ c \in Callbacks |-> [pc |-> "idle", next |-> 0, seeded |-> FALSE] ]

\* onAuthStateChanged invokes callback c; with a user it calls getDocs
SeedCallbackStart(c, user) ==
    /\ cb[c].pc = "idle"
    /\ cb' = [cb EXCEPT ![c].pc = IF user THEN "getDocs" ELSE "done"]
    /\ UNCHANGED store
    /\ UNCHANGED <<appVars, chartVars>>

\* getDocs of callback c resolves with the collection as it is now; an empty
\* one starts the seed write batch
SeedGetDocs(c) ==
    /\ cb[c].pc = "getDocs"
    /\ cb' = [cb EXCEPT ![c] =
                IF SnapshotEmpty(store)
                THEN [pc |-> "seeding", next |-> 0, seeded |-> TRUE]
                ELSE [pc |-> "done", next |-> 0, seeded |-> FALSE]]
    /\ UNCHANGED store
    /\ UNCHANGED <<appVars, chartVars>>

\* mutant of SeedSetDoc: the document id is not the predictable entry_${index};
\* a write that finds its entry present creates another document
SeedSetDoc_NewId(c) ==
    /\ cb[c].pc = "seeding"
    /\ cb[c].next < Len(initialData)
    /\ store' = [store EXCEPT
                   ![IF store[cb[c].next] = <<>> THEN cb[c].next ELSE ForeignDocId] =
                      <<initialData[cb[c].next + 1]>>]
    /\ cb' = [cb EXCEPT ![c].next = @ + 1]
    /\ UNCHANGED <<appVars, chartVars>>

\* the next setDoc(doc(pmtDataRef, `entry_${index}`), data) of c's batch is
\* applied; the writes of one client are applied in the order issued
SeedSetDoc(c) ==
    /\ cb[c].pc = "seeding"
    /\ cb[c].next < Len(initialData)
    /\ store' = [store EXCEPT ![cb[c].next] = <<initialData[cb[c].next + 1]>>]
    /\ cb' = [cb EXCEPT ![c].next = @ + 1]
    /\ UNCHANGED <<appVars, chartVars>>

\* Promise.all of c's batch resolves
SeedFinish(c) ==
    /\ cb[c].pc = "seeding"
    /\ cb[c].next = Len(initialData)
    /\ cb' = [cb EXCEPT ![c].pc = "done"]
    /\ UNCHANGED store
    /\ UNCHANGED <<appVars, chartVars>>

NextSeed ==
    \/ \E c \in Callbacks : \E user \in BOOLEAN : SeedCallbackStart(c, user)
    \/ \E c \in Callbacks : SeedGetDocs(c)
    \/ \E c \in Callbacks : SeedSetDoc(c)
    \/ \E c \in Callbacks : SeedFinish(c)

SpecSeed == InitSeed /\ [][NextSeed]_vars

-----------------------------------------------------------------------------
(* SpecChart: SvgLineChart as a function of its props.  The props are what *)
(* App passes for a snapshot and a validated selection; the metric is any  *)
(* property name, in Y_AXIS_OPTIONS or not.                                *)

\* lists without repetition over the set S
Arrangements(S) ==
    { xs \in UNION { [1..k -> S] : k \in 0..Cardinality(S) } :
        \A i, j \in 1..Len(xs) : xs[i] = xs[j] => i = j }

\* ids of the catalogue documents used: the first ones and the last one, so
\* that source 1 has two documents
ChartDocIds == (1..(ChartDocs - 1)) \cup {NumDocs}

ChartMetricInputs == MetricKeys \cup {"wavelength", "source_file", "temperature"}

ChartInputs ==
    { [ data           |-> filteredData(SnapshotOf(ids), sel),
        selectedMetric |-> m,
        pmtList        |-> sel,
        colorMap       |-> pmtColorMap(uniquePmtsOf(SnapshotOf(ids))) ] :
      <<ids, sel>> \in { p \in (SUBSET ChartDocIds) \X Arrangements(1..ChartDocs) :
                           SetOf(p[2]) \subseteq SourcesOf(SnapshotOf(p[1])) },
      m \in ChartMetricInputs }

InitChart ==
    /\ firebaseConfig = "ok"
    /\ AppInit
    /\ SeedIdle
    /\ chartProps \in ChartInputs
    /\ chart = NotRendered

\* one invocation of SvgLineChart with chartProps
RenderChart ==
    /\ chart = NotRendered
    /\ chart' = SvgLineChart(chartProps.data, chartProps.selectedMetric,
                             chartProps.pmtList, chartProps.colorMap)
    /\ UNCHANGED chartProps
    /\ UNCHANGED <<appVars, seedVars>>

NextChart == RenderChart

SpecChart == InitChart /\ [][NextChart]_vars

-----------------------------------------------------------------------------
(* Properties *)

\* C1: validated selection.  In every state reached by snapshot deliveries,
\* PMT toggles, Select All and Clear Selection, every identifier in
\* selectedPmts is the source_file of a record of the current snapshot
\* allData; the snapshot callback removes a selected id that is no longer
\* in the snapshot (it has no failing outcome).
C1_ValidatedSelection ==
    \A i \in 1..Len(selectedPmts) : selectedPmts[i] \in SourcesOf(allData)

\* a snapshot callback has just removed an id and kept another
C1_Witness ==
    /\ lastValidation = "dropped"
    /\ selectedPmts # <<>>
    /\ Screen = "main"

PaletteColor(k) == PLOT_COLORS[((k - 1) % 10) + 1]

\* the palette is reused from its start by the sources beyond its length
PaletteWraps ==
    \A n \in 1..MaxPaletteList :
      LET uniq == [ k \in 1..n |-> k ]
          map  == pmtColorMap(uniq)
      IN \A k \in 1..n :
           /\ map[k] = PaletteColor(k)
           /\ seriesColor(map, k, 0).color = PaletteColor(k)

\* C3: color stability.  The color of a source (series, legend, button) is
\* PLOT_COLORS[i mod 10], i its index among the sorted distinct source ids
\* of the full snapshot: a function of the snapshot alone, whatever the
\* selection and its order; the selection-index fallback is never used.
C3_ColorStability ==
    /\ PaletteWraps
    /\ Screen = "main" =>
         LET series  == ChartSeries
             rank(p) == Cardinality({ q \in SourcesOf(allData) : q < p }) + 1
             map     == pmtColorMap(uniquePmts)
         IN /\ \A p \in SourcesOf(allData) : map[p] = PaletteColor(rank(p))
            /\ \A i \in 1..Len(selectedPmts) : selectedPmts[i] \in DOMAIN map
            /\ \A i \in 1..Len(series) :
                 /\ series[i].color = PaletteColor(rank(series[i].pmt))
                 /\ ~series[i].fallback

\* series are drawn in an order that is not the sorted order of their ids
C3_Witness ==
    /\ Screen = "main"
    /\ ChartKind = "chart"
    /\ Len(selectedPmts) >= 2
    /\ selectedPmts[1] > selectedPmts[2]

\* a coordinate is a finite number between the two pixel bounds
InRange(v, a, b) ==
    /\ IsFinite(v)
    /\ ~JsLess(v, NumV(a))
    /\ ~JsLess(NumV(b), v)

\* C4: degenerate domain.  When all plotted values along an axis are
\* identical (min = max, a single point included), every plotted coordinate
\* on that axis is a finite pixel value inside the axis pixel range.
C4_DegenerateDomain ==
    (Screen = "main" /\ ChartKind = "chart") =>
      LET m   == ChartMemoNow
          pts == ChartPoints
      IN /\ m.xMin = m.xMax =>
              \A i \in 1..Len(pts) : \A j \in 1..Len(pts[i]) :
                InRange(pts[i][j].cx, padding, chartWidth - padding)
         /\ m.yMin = m.yMax =>
              \A i \in 1..Len(pts) : \A j \in 1..Len(pts[i]) :
                InRange(pts[i][j].cy, padding, chartHeight - padding)

\* C5: scale endpoints.  For every non-empty plotted data set the horizontal
\* scale maps the data minimum to padding and the maximum to
\* chartWidth - padding, and the vertical scale maps the minimum to
\* chartHeight - padding and the maximum to padding.
C5_ScaleEndpoints ==
    (Screen = "main" /\ ChartKind = "chart") =>
      LET m == ChartMemoNow
      IN /\ xScale(m, m.xMin) = NumV(padding)
         /\ xScale(m, m.xMax) = NumV(chartWidth - padding)
         /\ yScale(m, m.yMin) = NumV(chartHeight - padding)
         /\ yScale(m, m.yMax) = NumV(padding)

\* C6: empty state.  Whenever the filtered data set is empty, SvgLineChart
\* returns the placeholder panel, and no min/max, scale or tick has been
\* computed or is used in that render.
C6_EmptyPlaceholder ==
    (Screen = "main" /\ Len(filtered) = 0) =>
      /\ ChartKind = "placeholder"
      /\ ChartMemoNow = EmptyMemo
      /\ ChartGrid = [ x |-> <<>>, y |-> <<>> ]
      /\ ChartSeries = <<>>
      /\ ChartPoints = <<>>

\* the snapshot has records, and no source is selected
C6_Witness ==
    /\ Screen = "main"
    /\ allData # <<>>
    /\ selectedPmts = <<>>
    /\ ChartKind = "placeholder"

\* C7: seeding runs only once.  Over any interleaving of auth-state
\* callbacks, at most one callback executes the seed write batch.
C7_SeedOnce ==
    Cardinality({ c \in DOMAIN cb : cb[c].seeded }) <= 1

\* C8: unknown metric.  Invoked with a selectedMetric that is not a key of
\* Y_AXIS_OPTIONS, SvgLineChart fails; it renders neither a chart nor the
\* placeholder.
C8_UnknownMetricFails ==
    (chart.kind # "none" /\ chartProps.selectedMetric \notin MetricKeys) =>
      chart.kind \notin {"chart", "placeholder"}

\* xs lists, in ascending order, the Min(limit, |S|) smallest elements of S
IsFirstSorted(xs, S, limit) ==
    /\ Len(xs) = IF Cardinality(S) < limit THEN Cardinality(S) ELSE limit
    /\ \A i \in 1..Len(xs) : xs[i] \in S
    /\ \A i \in 1..(Len(xs) - 1) : xs[i] < xs[i + 1]
    /\ \A s \in S \ SetOf(xs) : \A i \in 1..Len(xs) : xs[i] < s

\* new is old without its elements outside S, the others in their order
KeptInOrder(new, old, S) ==
    LET kept == { i \in 1..Len(old) : old[i] \in S }
    IN /\ Len(new) = Cardinality(kept)
       /\ \A k \in 1..Len(new) :
            \E i \in kept : /\ Cardinality({ j \in kept : j <= i }) = k
                            /\ new[k] = old[i]

\* C9: default selection.  A snapshot delivered while the selection is empty
\* makes the selection the first min(5, n) source ids of the snapshot in
\* sorted order; delivered while it is non-empty, it only filters the
\* selection, keeping the order of the surviving ids.
C9_DefaultSelection ==
    [][ OnSnapshot(DocIdsOf(allData')) =>
          IF selectedPmts = <<>>
          THEN IsFirstSorted(selectedPmts', SourcesOf(allData'), 5)
          ELSE KeptInOrder(selectedPmts', selectedPmts, SourcesOf(allData')) ]_vars

\* a snapshot of more than five sources was delivered to an empty selection
C9_Witness ==
    /\ lastValidation = "default"
    /\ Cardinality(SourcesOf(allData)) > 5
    /\ Len(selectedPmts) = 5

\* no effect, callback or listener of App has a step left to take
Settled ==
    /\ initDone
    /\ ~(auth /\ db /\ authPc = "idle")
    /\ authPc # "signingIn"
    /\ cbPc \notin {"pendingUser", "pendingNull", "getDocs", "seeding"}
    /\ ~(db /\ isAuthReady /\ listener = "off")
    /\ listener # "on"

\* C10: error visibility.  Once an error is recorded the application leaves
\* the loading screen and shows the error screen: there is no state in which
\* error is set and the UI stays on the loading screen forever.
C10_ErrorVisible ==
    (error # "none" /\ Settled) => Screen = "error"

\* the callbacks that executed the seed write batch
Seeders == { c \in DOMAIN cb : cb[c].seeded }

\* the collection holding exactly the documents entry_0 .. entry_10 of initialData
SeededStore ==
    [ id \in DocIds |-> IF id \in SeedDocIds THEN <<initialData[id + 1]>> ELSE <<>> ]

\* C11: seeding convergence under races.  Whatever the interleaving of the
\* seed checks and seed writes of concurrent callbacks, once every callback
\* that seeds has completed its writes the collection holds exactly one
\* document per seed index, entry_0 .. entry_10 with the contents of
\* initialData; and at no time does seeding put a document under another id
\* or other contents under a seed id.
C11_SeedConvergence ==
    Seeders # {} =>
      /\ store[ForeignDocId] = <<>>
      /\ \A id \in SeedDocIds : store[id] \in { <<>>, <<initialData[id + 1]>> }
      /\ (\A c \in Seeders : cb[c].pc = "done") => store = SeededStore

\* two callbacks both observed the empty collection, and both have completed
\* their seed writes
C11_Witness ==
    /\ Cardinality(Seeders) >= 2
    /\ \A c \in Seeders : cb[c].pc = "done"

====
